---- MODULE Spec2Model ----
(***************************************************************************)
(* Model of the article API (app.py) and of the bulk-seed script           *)
(* (seed_database.py).                                                     *)
(*                                                                         *)
(* The datastore is the committed contents of the table "articles"; each   *)
(* psycopg2 connection works in its own transaction (autocommit is never   *)
(* switched on), so statements become visible to others only by            *)
(* conn.commit() and are discarded by conn.close().                        *)
(*                                                                         *)
(* View functions and resolvers are modelled as one atomic step each:      *)
(* a resolver is an operator that, from its arguments, the outcome of the  *)
(* external calls it makes and the table, computes the response together   *)
(* with the log of the driver calls it made, in the order it made them.    *)
(* The seed script and the registration of the routes are modelled         *)
(* statement by statement.                                                 *)
(*                                                                         *)
(* Spec is the API process over a table some runs of the seed script have  *)
(* filled; SpecSeed is the seed script over a table that starts empty.     *)
(***************************************************************************)
EXTENDS Integers, Sequences, FiniteSets, TLC

\* ------------------------------------------------------------------ bounds
MaxRecords == 2      \* longest data.json array explored
MaxSeedRuns == 2     \* runs of seed_database.py explored

\* ------------------------------------------------------- the table schema
\* Columns written by the seed script, in the order of its INSERT.
InsertColumns ==
  <<"title", "author", "pub_year", "abstract", "key_words", "related_articles",
    "summary_sentence">>

\* Columns read by the full-record resolver, in the order of its SELECT.
FullColumns ==
  <<"id", "key_words", "title", "author", "pub_year", "abstract",
    "related_articles", "summary_sentence">>

\* Mutant: an allow-list that lets one more column through.
allowed_fields_wide ==
  <<"title", "author", "pub_year", "abstract", "key_words", "related_articles",
    "summary_sentence", "password">>

\* The allow-list of get_field_for_article.
allowed_fields ==
  <<"title", "author", "pub_year", "abstract", "key_words", "related_articles",
    "summary_sentence">>

Range(s) == {s[i] : i \in 1..Len(s)}

\* ------------------------------------------------------------- data.json
\* Keys of a data.json record, as seed_data reads them (written here without
\* their accents and with a plain hyphen).
JsonKeys ==
  <<"titulo", "autor", "ano de publicacion", "abstract", "keywords",
    "articulos relacionados -grafo", "Frase de resumen">>

\* A well-formed record whose values are all tagged with n, so that every
\* cell of the table is distinct from every other cell.
JsonRecord(n) ==
  [k \in Range(JsonKeys) |->
     CASE k = "titulo" -> <<"title", n>>
       [] k = "autor" -> <<"author", n>>
       [] k = "ano de publicacion" -> <<"year", n>>
       [] k = "abstract" -> <<"abstract", n>>
       [] k = "keywords" -> <<"keywords", n>>
       [] k = "articulos relacionados -grafo" -> <<"related", n>>
       [] OTHER -> <<"summary", n>>]

\* A record that lacks the key k.
Without(rec, k) == [j \in (DOMAIN rec) \ {k} |-> rec[j]]

JsonRecords ==
  {JsonRecord(1), JsonRecord(2), Without(JsonRecord(3), "Frase de resumen")}

SeqsUpTo(S, n) == UNION {[1..m -> S] : m \in 0..n}

\* The contents data.json may have.
DataFiles == SeqsUpTo(JsonRecords, MaxRecords)

\* article['...'] raises KeyError when the record lacks one of the keys read
\* (the print of its title included).
raises_KeyError(article) == ~(Range(JsonKeys) \subseteq DOMAIN article)

\* The tuple of one record, in the order of the INSERT.
article_tuple(article) == [i \in 1..Len(JsonKeys) |-> article[JsonKeys[i]]]

\* ------------------------------------------------------------ datastore
\* A table is a function from the ids of its rows to the rows; a row is a
\* function from the seven non-key columns to their values.

\* INSERT INTO articles (title, ..., summary_sentence) VALUES (%s, ...):
\* the row that binds the i-th value of the tuple to the i-th column.  The id
\* is not among the columns: the datastore assigns it.
insert_query(values) ==
  [c \in Range(InsertColumns) |->
     values[CHOOSE i \in 1..Len(InsertColumns) : InsertColumns[i] = c]]

\* Python's None, as a result of fetchone(): no row is the empty tuple, since
\* no select list is empty.
None == <<>>

\* SELECT <cols> FROM articles WHERE id = <article_id>, then fetchone():
\* the tuple of the row's values in the order of the select list, or None.
fetchone(cols, article_id, tbl) ==
  IF article_id \in DOMAIN tbl
    THEN [i \in 1..Len(cols) |->
            IF cols[i] = "id" THEN article_id ELSE tbl[article_id][cols[i]]]
    ELSE None

\* conn.commit(): the rows inserted in the transaction join the table.
db_commit(tbl, pending) ==
  [i \in (DOMAIN tbl) \cup (DOMAIN pending) |->
     IF i \in DOMAIN pending THEN pending[i] ELSE tbl[i]]

\* conn.close(): what the transaction did and did not commit is discarded.
db_close(tbl, pending) == tbl

EmptyTable == [i \in {} |-> 0]


\* --------------------------------------------------------------- app.py
\* Error texts of the responses (written here without their accents).
FULL_NO_CONNECTION == "No se pudo conectar a la base de datos"
FULL_NOT_FOUND == "Articulo no encontrado"
FIELD_NO_CONNECTION == "No se pudo conectar a la base de datos"
\* Mutant: the field resolver words its not-found error differently.
FIELD_NOT_FOUND_other == "Campo no encontrado"
FIELD_NOT_FOUND == "Articulo no encontrado"
ERR_FIELD == "Campo no valido"
ERR_SERVER == "Ocurrio un error en el servidor: "
ERR_MODEL == "El modelo de Gemini no esta configurado correctamente"
ERR_QUERY == "La clave 'query' es requerida en el cuerpo de la peticion"
ERR_GEMINI == "Ocurrio un error al contactar a Gemini: "

\* What psycopg2.connect may do: return a connection, raise
\* psycopg2.OperationalError, or raise an exception of another class (such as
\* the UnicodeDecodeError it raises on a server message that is not UTF-8).
ConnectOutcomes == {"ok", "OperationalError", "OtherException"}

\* What executing the query and fetching its row may do.
ExecuteOutcomes == {"ok", "DatabaseError"}

\* No query is executed without a connection: there the outcome is not drawn.
ExecuteAfter(connect) == IF connect = "ok" THEN ExecuteOutcomes ELSE {"ok"}

\* What gemini_model.generate_content may do.
GenerateOutcomes == {"ok", "ServiceError"}

\* jsonify({"error": text}), status; log is the sequence of the driver and
\* service calls made ("open" is a connection that was opened), queries the
\* queries executed.
ErrorResponse(status, text, log, queries) ==
  [status |-> status, body |-> [error |-> text], raised |-> "none",
   log |-> log, queries |-> queries]

\* An exception that leaves the view function: there is no response of its own.
Uncaught(exc, log, queries) ==
  [status |-> 0, body |-> [error |-> exc], raised |-> exc,
   log |-> log, queries |-> queries]

\* index()
index ==
  [status |-> 200, body |-> [status |-> "API funcionando correctamente"],
   raised |-> "none", log |-> <<>>, queries |-> <<>>]

\* get_db_connection(): the connection, or None when psycopg2.connect raised
\* OperationalError; an exception of another class is not caught.
get_db_connection(connect) ==
  CASE connect = "ok" -> [conn |-> "conn", raised |-> "none"]
    [] connect = "OperationalError" -> [conn |-> "None", raised |-> "none"]
    [] OTHER -> [conn |-> "None", raised |-> connect]

\* dict(zip(column_names, article_data))
dict_zip(column_names, article_data) ==
  [c \in Range(column_names) |->
     article_data[CHOOSE i \in 1..Len(column_names) : column_names[i] = c]]

\* Mutant: the connection is closed nowhere.
finally_close_skipped(resp, conn) == resp

\* finally: if conn: conn.close() -- runs however the try block was left.
finally_close(resp, conn) ==
  IF conn # "None" THEN [resp EXCEPT !.log = Append(@, "close")] ELSE resp

\* The try/except of get_article_by_id, conn being open.
full_record_try(article_id, execute, tbl) ==
  LET query == [select |-> FullColumns, from |-> "articles", id |-> article_id]
      article_data == fetchone(query.select, article_id, tbl)
  IN IF execute # "ok"
       THEN ErrorResponse(500, ERR_SERVER \o execute,
                          <<"open", "cursor", "execute">>, <<query>>)
     ELSE IF article_data # None
       THEN [status |-> 200, body |-> dict_zip(query.select, article_data),
             raised |-> "none",
             log |-> <<"open", "cursor", "execute", "cursor_close">>,
             queries |-> <<query>>]
     ELSE ErrorResponse(404, FULL_NOT_FOUND,
                        <<"open", "cursor", "execute", "cursor_close">>, <<query>>)

\* get_article_by_id(article_id)
get_article_by_id(article_id, connect, execute, tbl) ==
  LET c == get_db_connection(connect)
  IN IF c.raised # "none" THEN Uncaught(c.raised, <<>>, <<>>)
     ELSE IF c.conn = "None" THEN ErrorResponse(500, FULL_NO_CONNECTION, <<>>, <<>>)
     ELSE finally_close(full_record_try(article_id, execute, tbl), c.conn)

\* The try/except of get_field_for_article, conn being open.
field_try(article_id, field_name, execute, tbl) ==
  LET query == [select |-> <<field_name>>, from |-> "articles", id |-> article_id]
      data == fetchone(query.select, article_id, tbl)
  IN IF execute # "ok"
       THEN ErrorResponse(500, ERR_SERVER \o execute,
                          <<"open", "cursor", "execute">>, <<query>>)
     ELSE IF data # None
       THEN [status |-> 200, body |-> [k \in {field_name} |-> data[1]],
             raised |-> "none",
             log |-> <<"open", "cursor", "execute", "cursor_close">>,
             queries |-> <<query>>]
     ELSE ErrorResponse(404, FIELD_NOT_FOUND,
                        <<"open", "cursor", "execute", "cursor_close">>, <<query>>)

\* get_field_for_article(article_id, field_name)
get_field_for_article(article_id, field_name, connect, execute, tbl) ==
  IF field_name \notin Range(allowed_fields)
    THEN ErrorResponse(400, ERR_FIELD, <<>>, <<>>)
    ELSE LET c == get_db_connection(connect)
         IN IF c.raised # "none" THEN Uncaught(c.raised, <<>>, <<>>)
            ELSE IF c.conn = "None"
              THEN ErrorResponse(500, FIELD_NO_CONNECTION, <<>>, <<>>)
            ELSE finally_close(field_try(article_id, field_name, execute, tbl), c.conn)

\* The seven single-field view functions: the last segment of the route and
\* the field each passes to get_field_for_article.
FieldRoutes == {"title", "author", "year", "abstract", "keywords", "related", "summary"}

\* Mutant: the keywords view function asks for the related articles.
RouteField_swapped(route) ==
  CASE route = "title" -> "title"
    [] route = "author" -> "author"
    [] route = "year" -> "pub_year"
    [] route = "abstract" -> "abstract"
    [] route = "keywords" -> "related_articles"
    [] route = "related" -> "related_articles"
    [] route = "summary" -> "summary_sentence"

RouteField(route) ==
  CASE route = "title" -> "title"
    [] route = "author" -> "author"
    [] route = "year" -> "pub_year"
    [] route = "abstract" -> "abstract"
    [] route = "keywords" -> "key_words"
    [] route = "related" -> "related_articles"
    [] route = "summary" -> "summary_sentence"

\* What request.get_json() may return: None, or the object of the body
\* (bodies that are JSON arrays, strings or numbers are not explored).
NoObject == [k \in {} |-> ""]
JsonBodies ==
  {[json |-> "None", obj |-> NoObject],
   [json |-> "object", obj |-> NoObject],
   [json |-> "object", obj |-> [k \in {"q"} |-> "climate change"]],
   [json |-> "object", obj |-> [k \in {"query"} |-> "climate change"]],
   [json |-> "object", obj |-> [k \in {"query", "lang"} |-> "es"]]}

\* not data
falsy(data) == data.json = "None" \/ DOMAIN data.obj = {}

\* Mutant: the completion service is called before the body is validated.
search_with_gemini_late_check(model, data, generate) ==
  IF model = "None" THEN ErrorResponse(500, ERR_MODEL, <<>>, <<>>)
  ELSE IF generate # "ok"
    THEN ErrorResponse(503, ERR_GEMINI \o generate,
                       <<"get_json", "generate_content">>, <<>>)
  ELSE IF falsy(data) \/ "query" \notin DOMAIN data.obj
    THEN ErrorResponse(400, ERR_QUERY, <<"get_json", "generate_content">>, <<>>)
  ELSE [status |-> 200,
        body |-> [user_query |-> data.obj["query"], gemini_summary |-> "text"],
        raised |-> "none", log |-> <<"get_json", "generate_content">>,
        queries |-> <<>>]

\* search_with_gemini(), data being what request.get_json() returned
search_with_gemini(model, data, generate) ==
  IF model = "None" THEN ErrorResponse(500, ERR_MODEL, <<>>, <<>>)
  ELSE IF falsy(data) \/ "query" \notin DOMAIN data.obj
    THEN ErrorResponse(400, ERR_QUERY, <<"get_json">>, <<>>)
  ELSE IF generate # "ok"
    THEN ErrorResponse(503, ERR_GEMINI \o generate,
                       <<"get_json", "generate_content">>, <<>>)
  ELSE [status |-> 200,
        body |-> [user_query |-> data.obj["query"], gemini_summary |-> "text"],
        raised |-> "none", log |-> <<"get_json", "generate_content">>,
        queries |-> <<>>]

\* The @app.route decorators in the order the module applies them: the rule,
\* the name of the decorated function (the endpoint) and the line of its def,
\* which stands for the function object: each def makes a new one.
Decorators ==
  <<[rule |-> "/", endpoint |-> "index", func |-> 50],
    [rule |-> "/api/articles/<id>", endpoint |-> "get_article_by_id", func |-> 55],
    [rule |-> "/api/search", endpoint |-> "search_with_gemini", func |-> 88],
    [rule |-> "/api/articles/<id>/title", endpoint |-> "get_article_title", func |-> 149],
    [rule |-> "/api/articles/<id>/author", endpoint |-> "get_article_author", func |-> 153],
    [rule |-> "/api/articles/<id>/year", endpoint |-> "get_article_year", func |-> 157],
    [rule |-> "/api/articles/<id>/abstract", endpoint |-> "get_article_abstract", func |-> 161],
    [rule |-> "/api/articles/<id>/keywords", endpoint |-> "get_article_keywords", func |-> 165],
    [rule |-> "/api/articles/<id>/related", endpoint |-> "get_related_articles", func |-> 169],
    [rule |-> "/api/articles/<id>/summary", endpoint |-> "get_article_summary", func |-> 173],
    [rule |-> "/api/articles/<id>/related", endpoint |-> "get_related_articles", func |-> 177]>>

\* Flask's add_url_rule, which @app.route calls: the rule joins the map, and
\* an endpoint that already has another view function is an AssertionError
\* ("View function mapping is overwriting an existing endpoint function").
add_url_rule(map, views, d) ==
  [url_map |-> Append(map, [rule |-> d.rule, endpoint |-> d.endpoint]),
   view_functions |->
     IF d.endpoint \in DOMAIN views /\ views[d.endpoint] # d.func
       THEN views
       ELSE [e \in (DOMAIN views) \cup {d.endpoint} |->
               IF e = d.endpoint THEN d.func ELSE views[e]],
   raised |->
     IF d.endpoint \in DOMAIN views /\ views[d.endpoint] # d.func
       THEN "AssertionError" ELSE "none"]

\* The tables some runs of the seed script leave behind: the rows of the
\* records of a data.json, numbered by the datastore.
TableOf(f) == [i \in 1..Len(f) |-> insert_query(article_tuple(f[i]))]
SeededTables ==
  {TableOf(f) : f \in {g \in DataFiles : \A i \in 1..Len(g) : ~raises_KeyError(g[i])}}

\* The article ids requested: ids of rows and ids of no row.
ArticleIds == 0..(MaxRecords + 1)

\* The field names get_field_for_article is called with directly: columns
\* of the allow-list, another column, and names that are no column.
FieldNames == {"title", "key_words", "id", "password", "title, id"}

NoRequest ==
  [kind |-> "none", id |-> 0, route |-> "", field |-> "", connect |-> "ok",
   execute |-> "ok", data |-> [json |-> "None", obj |-> NoObject],
   generate |-> "ok"]
NoResponse ==
  [status |-> 0, body |-> [error |-> ""], raised |-> "none", log |-> <<>>,
   queries |-> <<>>]

VARIABLES
  articles,      \* committed contents of the table
  next_id,       \* the datastore's id sequence
  seed_pc,       \* position of the seed script: idle, connect, loop, finally
  seed_runs,     \* runs of the seed script started so far
  articles_data, \* the array loaded from data.json by the current run
  seed_i,        \* index of the next record of the loop
  seed_conn,     \* conn of seed_data: None, open or closed
  seed_pending,  \* rows inserted by the run's transaction, not committed
  seed_result,   \* how the last run ended: none, committed, failed
  seed_base,     \* the table as it was when the last run started
  gemini_model,  \* the module's client of the completion service, or None
  reg_pc,        \* index of the next decorator the module applies
  reg_state,     \* loading, ready, or failed when the import raised
  url_map,       \* app.url_map: the rules added so far
  view_functions,\* app.view_functions: endpoint -> view function
  last_req,      \* the last call of a view function or resolver
  last_resp      \* what it returned

seedVars ==
  <<next_id, seed_pc, seed_runs, articles_data, seed_i, seed_conn,
    seed_pending, seed_result, seed_base>>

apiVars == <<gemini_model, reg_pc, reg_state, url_map, view_functions, last_req, last_resp>>

vars == <<articles, seedVars, apiVars>>

\* ------------------------------------------------------ seed_database.py
\* Mutant: every insert is committed at once (an autocommit connection).
seed_loop_body_autocommit(tbl, pending, article, id) ==
  [tbl |-> [i \in (DOMAIN tbl) \cup {id} |->
              IF i = id THEN insert_query(article_tuple(article)) ELSE tbl[i]],
   pending |-> pending]

\* One iteration of the loop that succeeds: the row is inserted in the
\* transaction; nothing is committed.
seed_loop_body(tbl, pending, article, id) ==
  [tbl |-> tbl,
   pending |-> [i \in (DOMAIN pending) \cup {id} |->
                  IF i = id THEN insert_query(article_tuple(article))
                  ELSE pending[i]]]

\* with open('data.json') ... json.load; conn = None
SeedStart ==
  /\ UNCHANGED apiVars
  /\ seed_pc = "idle"
  /\ seed_runs < MaxSeedRuns
  /\ \E f \in DataFiles : articles_data' = f
  /\ seed_runs' = seed_runs + 1
  /\ seed_pc' = "connect"
  /\ seed_conn' = "None"
  /\ seed_i' = 1
  /\ seed_pending' = EmptyTable
  /\ seed_result' = "none"
  /\ seed_base' = articles
  /\ UNCHANGED <<articles, next_id>>

\* conn = psycopg2.connect(...); cur = conn.cursor(): either may raise, the
\* second with conn already bound to the open connection.
SeedConnect ==
  /\ UNCHANGED apiVars
  /\ seed_pc = "connect"
  /\ \E outcome \in {"ok", "connect_raises", "cursor_raises"} :
       /\ seed_conn' = IF outcome = "connect_raises" THEN "None" ELSE "open"
       /\ seed_pc' = IF outcome = "ok" THEN "loop" ELSE "finally"
       /\ seed_result' = IF outcome = "ok" THEN seed_result ELSE "failed"
  /\ UNCHANGED <<articles, next_id, seed_runs, articles_data, seed_i,
                 seed_pending, seed_base>>

\* One iteration of for article in articles_data.
SeedInsert ==
  /\ UNCHANGED apiVars
  /\ seed_pc = "loop"
  /\ seed_i <= Len(articles_data)
  /\ \E outcome \in {"ok", "raises"} :
       LET article == articles_data[seed_i] IN
       IF raises_KeyError(article) \/ outcome = "raises"
         THEN /\ seed_pc' = "finally"
              /\ seed_result' = "failed"
              /\ UNCHANGED <<articles, next_id, seed_i, seed_pending>>
         ELSE LET r == seed_loop_body(articles, seed_pending, article, next_id) IN
              /\ articles' = r.tbl
              /\ seed_pending' = r.pending
              /\ next_id' = next_id + 1
              /\ seed_i' = seed_i + 1
              /\ UNCHANGED <<seed_pc, seed_result>>
  /\ UNCHANGED <<seed_runs, articles_data, seed_conn, seed_base>>

\* conn.commit() after the loop.
SeedCommit ==
  /\ UNCHANGED apiVars
  /\ seed_pc = "loop"
  /\ seed_i > Len(articles_data)
  /\ \E outcome \in {"ok", "raises"} :
       IF outcome = "ok"
         THEN /\ articles' = db_commit(articles, seed_pending)
              /\ seed_pending' = EmptyTable
              /\ seed_result' = "committed"
         ELSE /\ seed_result' = "failed"
              /\ UNCHANGED <<articles, seed_pending>>
  /\ seed_pc' = "finally"
  /\ UNCHANGED <<next_id, seed_runs, articles_data, seed_i, seed_conn, seed_base>>

\* finally: if conn is not None: conn.close(); then seed_data returns and its
\* array is gone.
SeedFinally ==
  /\ UNCHANGED apiVars
  /\ seed_pc = "finally"
  /\ IF seed_conn # "None"
       THEN /\ seed_conn' = "closed"
            /\ articles' = db_close(articles, seed_pending)
            /\ seed_pending' = EmptyTable
       ELSE UNCHANGED <<seed_conn, articles, seed_pending>>
  /\ seed_pc' = "idle"
  /\ articles_data' = <<>>
  /\ UNCHANGED <<next_id, seed_runs, seed_i, seed_result, seed_base>>

\* ------------------------------------------------- the steps of app.py
\* The module's statements run first, the decorators among them; the view
\* functions and resolvers are called once they have run, whether the last
\* decorator returned or raised (every function is defined by then).
\* One @app.route decorator of the module is applied.
RegisterRoute ==
  /\ reg_state = "loading"
  /\ reg_pc <= Len(Decorators)
  /\ LET r == add_url_rule(url_map, view_functions, Decorators[reg_pc])
     IN /\ url_map' = r.url_map
        /\ view_functions' = r.view_functions
        /\ IF r.raised # "none"
             THEN reg_state' = "failed" /\ reg_pc' = reg_pc
             ELSE /\ reg_pc' = reg_pc + 1
                  /\ reg_state' = IF reg_pc = Len(Decorators) THEN "ready" ELSE "loading"
  /\ UNCHANGED <<articles, seedVars, gemini_model, last_req, last_resp>>

\* Mutant: the full-record view function deletes the row it has read.
ApiFullRecord_writes ==
  /\ reg_state # "loading"
  /\ \E id \in ArticleIds, c \in ConnectOutcomes : \E e \in ExecuteAfter(c) :
       /\ last_req' = [NoRequest EXCEPT !.kind = "full", !.id = id, !.connect = c,
                                        !.execute = e]
       /\ last_resp' = get_article_by_id(id, c, e, articles)
       /\ articles' = [i \in (DOMAIN articles) \ {id} |-> articles[i]]
  /\ UNCHANGED <<seedVars, gemini_model, reg_pc, reg_state, url_map,
                 view_functions>>

\* get_article_by_id is called.
ApiFullRecord ==
  /\ reg_state # "loading"
  /\ \E id \in ArticleIds, c \in ConnectOutcomes : \E e \in ExecuteAfter(c) :
       /\ last_req' = [NoRequest EXCEPT !.kind = "full", !.id = id, !.connect = c,
                                        !.execute = e]
       /\ last_resp' = get_article_by_id(id, c, e, articles)
  /\ UNCHANGED <<articles, seedVars, gemini_model, reg_pc, reg_state, url_map,
                 view_functions>>

\* One of the seven single-field view functions is called.
ApiFieldRoute ==
  /\ reg_state # "loading"
  /\ \E route \in FieldRoutes, id \in ArticleIds, c \in ConnectOutcomes :
     \E e \in ExecuteAfter(c) :
       /\ last_req' = [NoRequest EXCEPT !.kind = "route", !.id = id, !.route = route,
                                        !.field = RouteField(route), !.connect = c,
                                        !.execute = e]
       /\ last_resp' = get_field_for_article(id, RouteField(route), c, e, articles)
  /\ UNCHANGED <<articles, seedVars, gemini_model, reg_pc, reg_state, url_map,
                 view_functions>>

\* get_field_for_article is called directly, with any field name.
ApiFieldDirect ==
  /\ reg_state # "loading"
  /\ \E field \in FieldNames, id \in ArticleIds, c \in ConnectOutcomes :
     \E e \in ExecuteAfter(c) :
       /\ last_req' = [NoRequest EXCEPT !.kind = "direct", !.id = id, !.field = field,
                                        !.connect = c, !.execute = e]
       /\ last_resp' = get_field_for_article(id, field, c, e, articles)
  /\ UNCHANGED <<articles, seedVars, gemini_model, reg_pc, reg_state, url_map,
                 view_functions>>

\* index is called.
ApiIndex ==
  /\ reg_state # "loading"
  /\ last_req' = [NoRequest EXCEPT !.kind = "index"]
  /\ last_resp' = index
  /\ UNCHANGED <<articles, seedVars, gemini_model, reg_pc, reg_state, url_map,
                 view_functions>>

\* search_with_gemini is called.
ApiSearch ==
  /\ reg_state # "loading"
  /\ \E data \in JsonBodies, g \in GenerateOutcomes :
       /\ last_req' = [NoRequest EXCEPT !.kind = "search", !.data = data,
                                        !.generate = g]
       /\ last_resp' = search_with_gemini(gemini_model, data, g)
  /\ UNCHANGED <<articles, seedVars, gemini_model, reg_pc, reg_state, url_map,
                 view_functions>>

\* ------------------------------------------------------- specifications
SeedIdle ==
  /\ next_id = 1
  /\ seed_pc = "idle"
  /\ seed_runs = 0
  /\ articles_data = <<>>
  /\ seed_i = 1
  /\ seed_conn = "None"
  /\ seed_pending = EmptyTable
  /\ seed_result = "none"
  /\ seed_base = EmptyTable

ApiStart ==
  /\ gemini_model \in {"model", "None"}
  /\ reg_pc = 1
  /\ reg_state = "loading"
  /\ url_map = <<>>
  /\ view_functions = [e \in {} |-> 0]
  /\ last_req = NoRequest
  /\ last_resp = NoResponse

\* The API process, over a table that was seeded.
Init ==
  /\ articles \in SeededTables
  /\ SeedIdle
  /\ ApiStart

Next ==
  \/ RegisterRoute
  \/ ApiIndex
  \/ ApiFullRecord
  \/ ApiFieldRoute
  \/ ApiFieldDirect
  \/ ApiSearch

Spec == Init /\ [][Next]_vars

\* The seed script, over a table that starts empty.
InitSeed ==
  /\ articles = EmptyTable
  /\ SeedIdle
  /\ ApiStart

NextSeed ==
  \/ SeedStart
  \/ SeedConnect
  \/ SeedInsert
  \/ SeedCommit
  \/ SeedFinally

SpecSeed == InitSeed /\ [][NextSeed]_vars

\* ----------------------------------------------------------- properties
Count(log, ev) == Cardinality({i \in 1..Len(log) : log[i] = ev})

IsRead == last_req.kind \in {"full", "route", "direct"}
IsEndpoint == last_req.kind \in {"full", "route"}

\* C1: whatever the exit path of the full-record resolver and of the field
\* resolver, the call closed as many connections as it opened.
C1_EveryConnectionClosed ==
  IsRead => Count(last_resp.log, "close") = Count(last_resp.log, "open")

\* A query that raised, on a connection that was opened.
C1_Witness ==
  /\ IsRead
  /\ last_req.execute = "DatabaseError"
  /\ Count(last_resp.log, "open") = 1
  /\ last_resp.status = 500

\* The seven names of the allow-list.
SevenNames ==
  {"title", "author", "pub_year", "abstract", "key_words", "related_articles",
   "summary_sentence"}

\* C2: a field name outside the seven names is answered 400 with no
\* connection opened and no query executed, and every query the field
\* resolver executes selects a column of the seven names.
C2_ValidateThenInterpolate ==
  last_req.kind \in {"route", "direct"} =>
    /\ last_req.field \notin SevenNames =>
         /\ last_resp.status = 400
         /\ last_resp.log = <<>>
         /\ last_resp.queries = <<>>
    /\ \A i \in 1..Len(last_resp.queries) :
         Range(last_resp.queries[i].select) \subseteq SevenNames

\* A direct call with a name that is not a column of the allow-list.
C2_Witness ==
  /\ last_req.kind = "direct"
  /\ last_req.field = "password"
  /\ last_resp.status = 400

\* C3: no failure of the datastore or of the completion service leaves a
\* resolver as an uncaught exception.
C3_NothingPropagates == last_resp.raised = "none"

MissingQuery(data) == data.json = "None" \/ "query" \notin DOMAIN data.obj

\* C4, as stated: a search whose body is empty or lacks the query key is
\* answered 400 and the completion service is not called, whatever the state
\* of its client.
C4_MissingQueryIs400 ==
  (last_req.kind = "search" /\ MissingQuery(last_req.data)) =>
    /\ last_resp.status = 400
    /\ Count(last_resp.log, "generate_content") = 0

\* C4, amended: such a search is answered 400 when the client of the
\* completion service was initialised and 500 when it was not, and the
\* completion service is called in neither case.
C4_MissingQueryNeverGenerates ==
  (last_req.kind = "search" /\ MissingQuery(last_req.data)) =>
    /\ last_resp.status = IF gemini_model = "None" THEN 500 ELSE 400
    /\ Count(last_resp.log, "generate_content") = 0

\* A body without the query key, the client being initialised.
C4_Witness ==
  /\ last_req.kind = "search"
  /\ last_req.data.json = "object"
  /\ DOMAIN last_req.data.obj = {"q"}
  /\ gemini_model = "model"
  /\ last_resp.status = 400

\* C5: an id of no row is answered 404 with the one not-found payload by the
\* full-record endpoint and by each single-field endpoint, when the
\* connection opened and the query did not raise.
C5_NotFoundIs404 ==
  (/\ IsEndpoint
   /\ last_req.connect = "ok"
   /\ last_req.execute = "ok"
   /\ last_req.id \notin DOMAIN articles) =>
    /\ last_resp.status = 404
    /\ last_resp.body = [error |-> "Articulo no encontrado"]

\* A single-field endpoint asked for an id of no row.
C5_Witness ==
  /\ last_req.kind = "route"
  /\ last_req.route = "summary"
  /\ last_req.connect = "ok"
  /\ last_req.execute = "ok"
  /\ last_req.id \notin DOMAIN articles
  /\ last_resp.status = 404

\* C6: when opening the connection fails, the full-record endpoint and every
\* single-field endpoint answer 500 with the one connection-error payload and
\* execute no query.
C6_NoConnectionIs500 ==
  (IsEndpoint /\ last_req.connect # "ok") =>
    /\ last_resp.raised = "none"
    /\ last_resp.status = 500
    /\ last_resp.body = [error |-> "No se pudo conectar a la base de datos"]
    /\ last_resp.queries = <<>>

\* The column whose value each single-field route returns.
ColumnOfRoute(route) ==
  CASE route = "title" -> "title"
    [] route = "author" -> "author"
    [] route = "year" -> "pub_year"
    [] route = "abstract" -> "abstract"
    [] route = "keywords" -> "key_words"
    [] route = "related" -> "related_articles"
    [] route = "summary" -> "summary_sentence"

\* C7: for an id of a row, the value a single-field endpoint returns is the
\* value under the corresponding column in the full-record endpoint's
\* response for the same id and table.
C7_FieldAgreesWithFullRecord ==
  (last_req.kind = "route" /\ last_resp.status = 200) =>
    LET full == get_article_by_id(last_req.id, "ok", "ok", articles)
    IN /\ full.status = 200
       /\ \A k \in DOMAIN last_resp.body :
            last_resp.body[k] = full.body[ColumnOfRoute(last_req.route)]

\* The keywords of a row, served by the single-field endpoint.
C7_Witness ==
  /\ last_req.kind = "route"
  /\ last_req.route = "keywords"
  /\ last_req.id \in DOMAIN articles
  /\ last_resp.status = 200

\* What the GET request req is answered over the table tbl.
Replay(req, tbl) ==
  IF req.kind = "full"
    THEN get_article_by_id(req.id, req.connect, req.execute, tbl)
    ELSE get_field_for_article(req.id, RouteField(req.route), req.connect,
                               req.execute, tbl)

\* C8: no call of the API changes the table, so the GET just served is
\* answered with the same status and body when it is repeated.
C8_ApiIsReadOnly ==
  [][/\ articles' = articles
     /\ last_req'.kind \in {"full", "route"} =>
          Replay(last_req', articles') = last_resp']_vars

\* A row was served by the full-record endpoint, and is still there.
C8_Witness ==
  /\ last_req.kind = "full"
  /\ last_resp.status = 200
  /\ last_req.id \in DOMAIN articles

\* C9: registering /api/articles/<id>/related twice raises nothing, and once
\* every decorator is applied the rule is served by get_related_articles.
C9_DuplicateRouteIsSilent ==
  /\ reg_state # "failed"
  /\ reg_state = "ready" =>
       /\ \E i \in 1..Len(url_map) :
            /\ url_map[i].rule = "/api/articles/<id>/related"
            /\ url_map[i].endpoint \in DOMAIN view_functions
       /\ \A i \in 1..Len(Decorators) :
            \E j \in 1..Len(url_map) : url_map[j].rule = Decorators[i].rule

\* C10: a run of the seed script persists nothing before its commit, which
\* follows the last insert; a run that fails leaves the table as it found it,
\* a run that commits adds one row per record; and a connection that was
\* opened is closed when seed_data returns.
C10_SeedIsOneTransaction ==
  /\ seed_pc \in {"connect", "loop"} => articles = seed_base
  /\ seed_result = "failed" => articles = seed_base
  /\ (seed_result = "committed" /\ seed_pc = "finally") =>
       seed_i = Len(articles_data) + 1
  /\ seed_result = "committed" =>
       /\ Cardinality(DOMAIN articles) = Cardinality(DOMAIN seed_base) + seed_i - 1
       /\ \A i \in DOMAIN seed_base : i \in DOMAIN articles /\ articles[i] = seed_base[i]
  /\ seed_pc = "idle" => seed_conn # "open"

\* A run that failed after it had inserted a row, and has returned with its
\* connection closed.
C10_Witness ==
  /\ seed_pc = "idle"
  /\ seed_result = "failed"
  /\ seed_i > 1
  /\ seed_conn = "closed"
  /\ articles = seed_base
====
